---- MODULE Spec2Model ----
(***************************************************************************)
(* Model of interproxy (main.go): a page cache whose state is owned by a   *)
(* single worker goroutine (cache.run) draining a channel of closures.     *)
(* Callers (cache.get), retrieval goroutines (multifetch.fetch ->          *)
(* cache.add) and the sweeper (cache.gc) hand closures to the worker over  *)
(* the unbuffered channel c.events.                                        *)
(*                                                                         *)
(* Time is counted in minutes since process start.  A Go map is a function *)
(* whose DOMAIN is the set of keys present.  A channel is a positive       *)
(* number (its identity); the nil channel is 0.                            *)
(***************************************************************************)
EXTENDS Integers, Sequences, FiniteSets, Bags, TLC

----------------------------------------------------------------------------
(* Bounds of the model *)

ClockStep == 5       \* the clock advances in steps of this many minutes
MaxTime == 5         \* the clock stops advancing here
MaxPending == 0      \* a miss is served while at most this many retrievals are unfinished

Callers == {1, 2}    \* goroutines that call cache.get, one call each
PageArgs == {0, 1}   \* the pages callers ask for
Groups == {"abc"}    \* the result sets callers ask for

(* what a retrieval can come back with: <<body, failed>>.  multifetch.get *)
(* returns a nil body together with an error.                              *)
Results == {<<"", TRUE>>, <<"x", FALSE>>}

----------------------------------------------------------------------------
(* Program constants *)

TTL == 5             \* 5 * time.Minute, the argument of newCacheEntry
PrefetchPages == 3   \* the `total' argument of newMultifetch
ZeroTime == 0 - 1000 \* the zero time.Time: before every time.Now()
NilChan == 0

VARIABLES
    now,        \* wall clock (time.Now())
    entries,    \* c.entries: cacheGroup -> cacheEntry
    waits,      \* c.waits.waits: cacheGroup -> (page -> chan)
    nchan,      \* number of channels made so far by waiters.wait
    closed,     \* the channels that have been closed
    worker,     \* cache.run: "recv" at `range c.events', "call" inside f()
    tasks,      \* bag of retrieval goroutines started by multifetch.fetch
    calls,      \* per caller: the locals of cache.get
    gcpc,       \* cache.gc: "sleep" (before the send), "done" (at <-done)
    purge       \* the purge list of the sweep closure being run

vars == <<now, entries, waits, nchan, closed, worker, tasks, calls, gcpc,
          purge>>

----------------------------------------------------------------------------
(* Go maps *)

EmptyMap == [x \in {} |-> 0]

MapPut(m, k, v) == [x \in (DOMAIN m) \cup {k} |-> IF x = k THEN v ELSE m[x]]

MapDel(m, k) == [x \in (DOMAIN m) \ {k} |-> m[x]]

----------------------------------------------------------------------------
(* page and cacheEntry *)

newPage(n, body) ==
    [n |-> n, body |-> body, expire |-> ZeroTime, cached |-> FALSE]

NilPage == [n |-> 0 - 1, body |-> "", expire |-> ZeroTime, cached |-> FALSE]

newCacheEntry(d) == [deadline |-> now + d, pages |-> EmptyMap]

(* ce.deadline.After(t), the negation lost *)
invalidNegated(ce, t) == ce.deadline > t

(* t.After(ce.deadline): an entry is kept at the very instant it expires *)
invalidStrict(ce, t) == t > ce.deadline

(* !ce.deadline.After(t) *)
invalid(ce, t) == ~(ce.deadline > t)

hasPage(ce, n) == n \in DOMAIN ce.pages

(* some page of the entry instead of page n *)
getPageAny(ce, n) ==
    LET k == CHOOSE k \in DOMAIN ce.pages : TRUE
    IN  [newPage(k, ce.pages[k]) EXCEPT !.expire = ce.deadline]

getPage(ce, n) == [newPage(n, ce.pages[n]) EXCEPT !.expire = ce.deadline]

(* the deadline bumped on every page added *)
addPageBump(ce, p) ==
    [ce EXCEPT !.pages = MapPut(ce.pages, p.n, p.body), !.deadline = now + TTL]

addPage(ce, p) == [ce EXCEPT !.pages = MapPut(ce.pages, p.n, p.body)]

----------------------------------------------------------------------------
(* waiters.  A registry state is the pair of the map and the channel      *)
(* counter; wait returns the channel and the new registry state.          *)

wait(w, nc, group, n) ==
    IF group \in DOMAIN w /\ n \in DOMAIN w[group]
    THEN [waits |-> w, nchan |-> nc, ch |-> w[group][n]]
    ELSE LET inner == IF group \in DOMAIN w THEN w[group] ELSE EmptyMap
             ch == nc + 1
         IN  [waits |-> MapPut(w, group, MapPut(inner, n, ch)),
              nchan |-> ch, ch |-> ch]

(* every gate of the group is dropped *)
doneRemoveGroup(w, group, n) == MapDel(w, group)

doneRemove(w, group, n) ==
    LET inner == MapDel(w[group], n)
    IN  IF DOMAIN inner = {} THEN MapDel(w, group)
        ELSE MapPut(w, group, inner)

(* the registration is deleted and the channel is never closed *)
doneNoClose(w, cl, group, n) ==
    IF group \notin DOMAIN w THEN [waits |-> w, closed |-> cl]
    ELSE IF n \notin DOMAIN w[group] THEN [waits |-> w, closed |-> cl]
    ELSE [waits |-> doneRemove(w, group, n), closed |-> cl]

(* the channel is closed and the registration is kept *)
doneKeep(w, cl, group, n) ==
    IF group \notin DOMAIN w THEN [waits |-> w, closed |-> cl]
    ELSE IF n \notin DOMAIN w[group] THEN [waits |-> w, closed |-> cl]
    ELSE [waits |-> w, closed |-> cl \cup {w[group][n]}]

done(w, cl, group, n) ==
    IF group \notin DOMAIN w THEN [waits |-> w, closed |-> cl]
    ELSE IF n \notin DOMAIN w[group] THEN [waits |-> w, closed |-> cl]
    ELSE [waits |-> doneRemove(w, group, n),
          closed |-> cl \cup {w[group][n]}]

----------------------------------------------------------------------------
(* multifetch *)

newMultifetch(group, n, total) == [group |-> group, first |-> n, pages |-> total]

rangePages(m) == <<0, m.pages>>

(* the page a call m.fetch(c, n) retrieves: n = m.first + n *)
(* the page after the one asked for *)
fetchPageNext(m, n) == m.first + n + 1

fetchPage(m, n) == m.first + n

newTask(group, n) ==
    [group |-> group, n |-> n, st |-> "fetching", body |-> "", err |-> FALSE]

(* m.fetch(c, n): start one goroutine *)
fetch(tk, m, n) == tk (+) SetToBag({newTask(m.group, fetchPage(m, n))})

----------------------------------------------------------------------------
(* cache.request *)

RECURSIVE requestLoop(_, _, _, _, _, _)
requestLoop(w, nc, tk, m, lo, hi) ==
    IF lo < hi
    THEN LET r == wait(w, nc, m.group, lo)
         IN  requestLoop(r.waits, r.nchan, fetch(tk, m, lo), m, lo + 1, hi)
    ELSE [waits |-> w, nchan |-> nc, tasks |-> tk]

request(w, nc, tk, group, n) ==
    LET r0 == wait(w, nc, group, n)
        mf == newMultifetch(group, n, PrefetchPages)
        rg == rangePages(mf)
        r1 == requestLoop(r0.waits, r0.nchan, fetch(tk, mf, n), mf, rg[1], rg[2])
    IN  [waits |-> r1.waits, nchan |-> r1.nchan, tasks |-> r1.tasks,
         ch |-> r0.ch]

----------------------------------------------------------------------------
(* the state after newCache() *)

NewCall ==
    [pc |-> "idle", group |-> "abc", n |-> 0, cached |-> TRUE,
     wait |-> NilChan, page |-> NilPage, rounds |-> 0]

Init ==
    /\ now = 0
    /\ entries = EmptyMap
    /\ waits = EmptyMap
    /\ nchan = 0
    /\ closed = {}
    /\ worker = "recv"
    /\ tasks = EmptyBag
    /\ calls = [c \in Callers |-> NewCall]
    /\ gcpc = "sleep"
    /\ purge = {}

----------------------------------------------------------------------------
(* the clock *)

Tick ==
    /\ now + ClockStep <= MaxTime
    /\ now' = now + ClockStep
    /\ UNCHANGED <<entries, waits, nchan, closed, worker, tasks, calls, gcpc, purge>>

----------------------------------------------------------------------------
(* cache.run *)

(* a second goroutine running cache.run takes closures at any time *)
WorkerAlways == TRUE

WorkerReady == worker = "recv"

----------------------------------------------------------------------------
(* cache.get *)

(* the value of the closure's `now' when it calls ce.invalid *)
queryNow(ok) == IF ok THEN ZeroTime ELSE now

queryMiss(group, n) ==
    LET ok == group \in DOMAIN entries
    IN  \/ ~ok
        \/ invalid(entries[group], queryNow(ok))
        \/ ~hasPage(entries[group], n)

(* the body of the closure of get, run by the worker for caller c whose   *)
(* locals are l                                                            *)
Query(c, l) ==
    /\ WorkerReady
    /\ IF queryMiss(l.group, l.n)
       THEN LET r == request(waits, nchan, tasks, l.group, l.n)
            IN  /\ BagCardinality(tasks) <= MaxPending
                /\ waits' = r.waits
                /\ nchan' = r.nchan
                /\ tasks' = r.tasks
                /\ calls' = [calls EXCEPT ![c] = [l EXCEPT !.pc = "requested",
                                                          !.wait = r.ch]]
       ELSE /\ calls' = [calls EXCEPT ![c] =
                            [l EXCEPT !.pc = "requested",
                                      !.page = getPage(entries[l.group], l.n)]]
            /\ UNCHANGED <<waits, nchan, tasks>>
    /\ worker' = "call"
    /\ UNCHANGED <<now, entries, closed, gcpc, purge>>

(* get(group, n) is called; the worker takes its first closure from       *)
(* c.events and runs it                                                    *)
ExecGet(c, group, n) ==
    /\ calls[c].pc = "idle"
    /\ Query(c, [NewCall EXCEPT !.group = group, !.n = n])

(* the worker takes the closure of a caller that has been woken *)
ExecRetry(c) ==
    /\ calls[c].pc = "send"
    /\ Query(c, calls[c])

(* `cached = false' left out *)
cachedAfterWaitKept == TRUE

(* the value get gives `cached' before it waits on the gate *)
cachedAfterWait == FALSE

(* requested <- struct{}{} meets <-requested; the caller either returns  *)
(* the page or goes to sleep on the gate                                  *)
FinishGet(c) ==
    /\ worker = "call"
    /\ calls[c].pc = "requested"
    /\ IF calls[c].wait = NilChan
       THEN calls' = [calls EXCEPT ![c].pc = "returned",
                                   ![c].page.cached = calls[c].cached]
       ELSE calls' = [calls EXCEPT ![c].pc = "waiting",
                                   ![c].cached = cachedAfterWait,
                                   ![c].rounds = calls[c].rounds + 1]
    /\ worker' = "recv"
    /\ UNCHANGED <<now, entries, waits, nchan, closed, tasks, gcpc, purge>>

(* <-wait returns once the gate is closed; the loop starts over *)
Resume(c) ==
    /\ calls[c].pc = "waiting"
    /\ calls[c].wait \in closed
    /\ calls' = [calls EXCEPT ![c].pc = "send", ![c].wait = NilChan]
    /\ UNCHANGED <<now, entries, waits, nchan, closed, worker, tasks, gcpc, purge>>

----------------------------------------------------------------------------
(* the goroutine of multifetch.fetch and cache.add *)

Replace(t, u) == (tasks (-) SetToBag({t})) (+) SetToBag({u})

(* the entry the add closure stores the page in *)
addEntry(group) ==
    IF group \in DOMAIN entries THEN entries[group] ELSE newCacheEntry(TTL)

(* m.get(url) has returned res = <<body, failed>> and the goroutine has    *)
(* called c.add; the worker takes the add closure from c.events and runs  *)
(* its body                                                                *)
ExecAdd(t, res) ==
    /\ WorkerReady
    /\ BagIn(t, tasks)
    /\ t.st = "fetching"
    /\ LET ce == addPage(addEntry(t.group), newPage(t.n, res[1]))
           d == done(waits, closed, t.group, t.n)
       IN  /\ entries' = MapPut(entries, t.group, ce)
           /\ waits' = d.waits
           /\ closed' = d.closed
    /\ tasks' = Replace(t, [t EXCEPT !.st = "running", !.body = res[1],
                                     !.err = res[2]])
    /\ worker' = "call"
    /\ UNCHANGED <<now, nchan, calls, gcpc, purge>>

(* the closure returns err to cache.run, which logs it; the goroutine ends *)
FinishAdd(t) ==
    /\ worker = "call"
    /\ BagIn(t, tasks)
    /\ t.st = "running"
    /\ tasks' = tasks (-) SetToBag({t})
    /\ worker' = "recv"
    /\ UNCHANGED <<now, entries, waits, nchan, closed, calls, gcpc, purge>>

----------------------------------------------------------------------------
(* cache.gc *)

purgeList == {g \in DOMAIN entries : invalid(entries[g], now)}

(* time.Sleep(d) has returned; the worker takes the sweep closure from    *)
(* c.events and runs its body                                              *)
ExecGc ==
    /\ WorkerReady
    /\ gcpc = "sleep"
    /\ purge' = purgeList
    /\ entries' = [g \in (DOMAIN entries) \ purgeList |-> entries[g]]
    /\ gcpc' = "done"
    /\ worker' = "call"
    /\ UNCHANGED <<now, waits, nchan, closed, tasks, calls>>

(* `<-done' left out of cache.gc: the closure's send never completes *)
FinishGcStuck == FALSE /\ UNCHANGED vars

(* done <- struct{}{} meets <-done *)
FinishGc ==
    /\ worker = "call"
    /\ gcpc = "done"
    /\ gcpc' = "sleep"
    /\ purge' = {}
    /\ worker' = "recv"
    /\ UNCHANGED <<now, entries, waits, nchan, closed, tasks, calls>>

----------------------------------------------------------------------------

Next ==
    \/ Tick
    \/ \E c \in Callers, g \in Groups, n \in PageArgs : ExecGet(c, g, n)
    \/ \E c \in Callers : ExecRetry(c)
    \/ \E c \in Callers : FinishGet(c)
    \/ \E c \in Callers : Resume(c)
    \/ \E t \in BagToSet(tasks), res \in Results : ExecAdd(t, res)
    \/ \E t \in BagToSet(tasks) : FinishAdd(t)
    \/ ExecGc
    \/ FinishGc

Spec == Init /\ [][Next]_vars

(* cache.run never stops between closures; a goroutine blocked on         *)
(* c.events <- f is served when the worker comes back to the receive, and  *)
(* a goroutine whose channel operation can proceed does proceed.           *)
FairSpec ==
    /\ Spec
    /\ SF_vars(\E t \in BagToSet(tasks), res \in Results : ExecAdd(t, res))
    /\ WF_vars(\E t \in BagToSet(tasks) : FinishAdd(t))
    /\ WF_vars(\E c \in Callers : FinishGet(c))
    /\ WF_vars(FinishGc)
    /\ \A c \in Callers : WF_vars(Resume(c))

----------------------------------------------------------------------------
(* origin.handle: the route variables q and n arrive as text.  A text is  *)
(* a sequence of characters.                                               *)

RawQueries == {"", "abc"}
RawPages == {<<>>, <<"-", "1">>, <<"x">>}

Digits == <<"0", "1", "2", "3", "4", "5", "6", "7", "8", "9">>

isDigit(ch) == \E i \in DOMAIN Digits : Digits[i] = ch

digitVal(ch) == (CHOOSE i \in DOMAIN Digits : Digits[i] = ch) - 1

RECURSIVE parseUint(_, _)
parseUint(s, acc) ==
    IF s = <<>> THEN acc
    ELSE parseUint(Tail(s), acc * 10 + digitVal(Head(s)))

(* strconv.ParseInt(s, 10, 64) for texts short of the 64-bit range: an    *)
(* optional sign, then one or more digits                                  *)
parseInt(s) ==
    LET signed == s # <<>> /\ Head(s) \in {"+", "-"}
        digits == IF signed THEN Tail(s) ELSE s
    IN  IF digits = <<>> \/ \E i \in DOMAIN digits : ~isDigit(digits[i])
        THEN [ok |-> FALSE, val |-> 0]
        ELSE [ok |-> TRUE,
              val |-> IF signed /\ Head(s) = "-" THEN 0 - parseUint(digits, 0)
                      ELSE parseUint(digits, 0)]

(* the page handle passes to cache.get: 0 when the route has no n *)
handlePage(raw) == IF raw = <<>> THEN 0 ELSE parseInt(raw).val

(* one request: http.NotFound, http.Error(500), or cache.get is called    *)
(* and the worker runs its first closure                                   *)
Handle(c, q, raw) ==
    /\ calls[c].pc = "idle"
    /\ IF q = ""
       THEN /\ calls' = [calls EXCEPT ![c].pc = "notfound"]
            /\ UNCHANGED <<now, entries, waits, nchan, closed, worker, tasks,
                           gcpc, purge>>
       ELSE IF raw # <<>> /\ ~parseInt(raw).ok
       THEN /\ calls' = [calls EXCEPT ![c].pc = "error"]
            /\ UNCHANGED <<now, entries, waits, nchan, closed, worker, tasks,
                           gcpc, purge>>
       ELSE ExecGet(c, q, handlePage(raw))

HandleNext ==
    \/ Tick
    \/ \E c \in Callers, q \in RawQueries, raw \in RawPages : Handle(c, q, raw)
    \/ \E c \in Callers : ExecRetry(c)
    \/ \E c \in Callers : FinishGet(c)
    \/ \E c \in Callers : Resume(c)
    \/ \E t \in BagToSet(tasks), res \in Results : ExecAdd(t, res)
    \/ \E t \in BagToSet(tasks) : FinishAdd(t)
    \/ ExecGc
    \/ FinishGc

(* the cache behind its HTTP adapter *)
HandleSpec == Init /\ [][HandleNext]_vars

----------------------------------------------------------------------------
(* Steps of the worker, as seen in a pair of states *)

(* the worker runs a closure of get for caller c *)
QueryStep(c) == calls[c].pc \in {"idle", "send"} /\ calls'[c].pc = "requested"

HitStep(c) == QueryStep(c) /\ calls'[c].wait = NilChan

MissStep(c) == QueryStep(c) /\ calls'[c].wait # NilChan

running(tk) == {t \in BagToSet(tk) : t.st = "running"}

(* the worker runs a closure of add *)
AddStep == running(tasks) = {} /\ running(tasks') # {}

(* the worker runs the sweep closure *)
SweepStep == gcpc = "sleep" /\ gcpc' = "done"

(* the operations the worker is in the middle of *)
executing ==
    [get |-> {c \in Callers : calls[c].pc = "requested"},
     add |-> BagCardinality([t \in running(tasks) |-> CopiesIn(t, tasks)]),
     gc |-> IF gcpc = "done" THEN 1 ELSE 0]

numExecuting == Cardinality(executing.get) + executing.add + executing.gc

----------------------------------------------------------------------------
(* C1: at any time at most one retrieval task is in flight per            *)
(* (key,page) pair.                                                        *)
C1_SingleFlight ==
    \A t \in BagToSet(tasks) : t.st = "fetching" => CopiesIn(t, tasks) <= 1

(* C2: a get-query that misses on page n of a key spawns one retrieval    *)
(* task for each of the pages n, n+1, n+2, n+3 of that key, and no other.  *)
C2_FanOut ==
    [][\A c \in Callers :
         MissStep(c) =>
           tasks' = tasks (+) SetToBag({newTask(calls'[c].group, p) :
                      p \in calls'[c].n .. calls'[c].n + PrefetchPages})]_vars

(* C3: every page returned as a hit carries an expiry later than the time *)
(* of the query that produced it.                                          *)
C3_NoExpiredHit ==
    [][\A c \in Callers : HitStep(c) => calls'[c].page.expire > now]_vars

(* C4: while the entry of a key holds page n and has not expired, the     *)
(* first query of a get(key, n) is a hit: it registers no waiter, spawns   *)
(* no retrieval task, and the caller returns with servedFromCache = true.  *)
C4_FreshPageIsHit ==
    [][\A c \in Callers :
         /\ ( /\ calls[c].pc = "idle"
              /\ QueryStep(c)
              /\ calls'[c].group \in DOMAIN entries
              /\ calls'[c].n \in DOMAIN entries[calls'[c].group].pages
              /\ entries[calls'[c].group].deadline > now )
            => /\ HitStep(c)
               /\ calls'[c].page.n = calls'[c].n
               /\ waits' = waits
               /\ tasks' = tasks
         /\ ( /\ calls[c].pc = "requested"
              /\ calls[c].wait = NilChan
              /\ calls[c].rounds = 0
              /\ calls'[c].pc # "requested" )
            => /\ calls'[c].pc = "returned"
               /\ calls'[c].page.cached ]_vars

C4_Witness ==
    \E c \in Callers :
        /\ calls[c].pc = "returned"
        /\ calls[c].rounds = 0
        /\ calls[c].page.cached
        /\ calls[c].page.expire > now

(* C5: the body stored for a (key,page) by a successful retrieval does    *)
(* not change during the lifetime of its entry, whatever retrieval tasks   *)
(* complete later (so every get that hits returns the same bytes).         *)
C5_BodyNeverChanges ==
    [][\A g \in DOMAIN entries : \A n \in DOMAIN entries[g].pages :
         ( /\ entries[g].pages[n] # ""
           /\ g \in DOMAIN entries'
           /\ entries'[g].deadline = entries[g].deadline )
         => /\ n \in DOMAIN entries'[g].pages
            /\ entries'[g].pages[n] = entries[g].pages[n] ]_vars

(* C6: a sweep removes exactly the entries whose expiry <= the time of    *)
(* the sweep, and no other step removes an entry.                          *)
C6_SweepIffExpired ==
    [][ /\ SweepStep =>
             /\ DOMAIN entries' = {g \in DOMAIN entries : entries[g].deadline > now}
             /\ \A g \in DOMAIN entries' : entries'[g] = entries[g]
        /\ \A g \in DOMAIN entries :
             g \notin DOMAIN entries' => SweepStep /\ entries[g].deadline <= now ]_vars

C6_Witness ==
    /\ gcpc = "done"
    /\ purge # {}
    /\ \A g \in purge : g \notin DOMAIN entries

(* C7: once the empty body of a failed retrieval is stored for            *)
(* (key,page), that empty body is what the entry holds, and so what a get  *)
(* that hits returns, until the entry is removed.                          *)
C7_FailureStaysCached ==
    [][\A g \in DOMAIN entries : \A n \in DOMAIN entries[g].pages :
         ( /\ entries[g].pages[n] = ""
           /\ g \in DOMAIN entries'
           /\ entries'[g].deadline = entries[g].deadline )
         => /\ n \in DOMAIN entries'[g].pages
            /\ entries'[g].pages[n] = "" ]_vars

(* C8: every caller suspended on a gate inside get is eventually resumed. *)
C8_WaitersResume ==
    \A c \in Callers : (calls[c].pc = "waiting") ~> (calls[c].pc # "waiting")

C8_Witness ==
    \E c \in Callers : calls[c].pc = "send" /\ calls[c].rounds >= 1

(* C9: the page get returns has servedFromCache = true exactly when the   *)
(* caller never waited on a gate.                                          *)
C9_CachedIffNeverWaited ==
    \A c \in Callers :
        calls[c].pc = "returned" => (calls[c].page.cached <=> calls[c].rounds = 0)

C9_Witness ==
    \E c \in Callers :
        /\ calls[c].pc = "returned"
        /\ calls[c].rounds >= 1
        /\ ~calls[c].page.cached

(* C10: at most one operation is executing at any time, and it is the     *)
(* worker's; the entries map and the waiter registry change only in a step *)
(* in which the worker runs an operation.                                  *)
C10_Serialized ==
    /\ [](numExecuting <= 1 /\ (numExecuting = 1 <=> worker = "call"))
    /\ [][(entries' # entries \/ waits' # waits)
            => (worker = "recv" /\ worker' = "call" /\ numExecuting' = 1)]_vars

C10_Witness ==
    /\ worker = "call"
    /\ running(tasks) # {}
    /\ \E c \in Callers : calls[c].pc = "send"

----------------------------------------------------------------------------
(* FairSpec, and a woken caller blocked on c.events <- f is served too    *)
RetryFairSpec ==
    /\ FairSpec
    /\ SF_vars(\E c \in Callers : ExecRetry(c))

(* a closure is being run, or is submitted and not yet run *)
pendingWork ==
    \/ worker = "call"
    \/ tasks # EmptyBag
    \/ \E c \in Callers : calls[c].pc = "send"

(* C11: the worker always comes back from the closure it runs to the      *)
(* receive on c.events, and every submitted closure is eventually run:     *)
(* whenever a closure is running or submitted, a state follows in which    *)
(* the worker is at the receive and no closure is left to run.             *)
C11_WorkerNeverStuck == pendingWork ~> ~pendingWork

C11_Witness ==
    /\ worker = "recv"
    /\ tasks = EmptyBag
    /\ \E c \in Callers : calls[c].pc = "returned" /\ calls[c].rounds >= 2
    /\ \E g \in DOMAIN entries : \E n \in DOMAIN entries[g].pages :
           entries[g].pages[n] = ""

(* C12: a negative page index never reaches the store: no caller is in    *)
(* get with a negative page, no gate is registered and no retrieval is     *)
(* started for a negative page.                                            *)
C12_NoNegativePage ==
    /\ \A c \in Callers :
         calls[c].pc \in {"requested", "waiting", "send", "returned"}
            => calls[c].n >= 0
    /\ \A g \in DOMAIN waits : \A n \in DOMAIN waits[g] : n >= 0
    /\ \A t \in BagToSet(tasks) : t.n >= 0

(* C13: the expiry of an entry is set when the entry is created, to the   *)
(* time of creation + TTL, and never changes while the entry exists; every *)
(* page returned from the entry carries that expiry.                       *)
C13_ExpirySetOnce ==
    [][ /\ \A g \in (DOMAIN entries) \cap (DOMAIN entries') :
             entries'[g].deadline = entries[g].deadline
        /\ \A g \in (DOMAIN entries') \ (DOMAIN entries) :
             entries'[g].deadline = now + TTL
        /\ \A c \in Callers :
             HitStep(c) =>
               calls'[c].page.expire = entries[calls'[c].group].deadline ]_vars

C13_Witness ==
    \E t \in running(tasks) :
        /\ t.group \in DOMAIN entries
        /\ entries[t.group].deadline < now + TTL
        /\ Cardinality(DOMAIN entries[t.group].pages) >= 2

(* C14: whenever a retrieval task for (K,p) is in flight, a gate for      *)
(* (K,p) is registered.                                                    *)
C14_GateForEveryTask ==
    \A t \in BagToSet(tasks) :
        t.st = "fetching" =>
            /\ t.group \in DOMAIN waits
            /\ t.n \in DOMAIN waits[t.group]

(* C16: no gate outlives its fetch: when no retrieval task is in flight   *)
(* and no add is pending, the waiter registry is empty.                    *)
C16_NoGateOutlivesFetch == tasks = EmptyBag => waits = EmptyMap

(* C17: an add never inserts a page into an expired entry: when the key   *)
(* has no entry or only an expired one, the page is stored in a fresh      *)
(* entry whose expiry is the time of the add + TTL.                        *)
C17_ExpiredEntryReplaced ==
    [][ AddStep =>
          \A t \in running(tasks') :
              /\ ~invalid(entries'[t.group], now)
              /\ (t.group \notin DOMAIN entries
                    \/ invalid(entries[t.group], now))
                 => /\ entries'[t.group].deadline = now + TTL
                    /\ DOMAIN entries'[t.group].pages = {t.n} ]_vars

(* the registered pairs and their channels *)
gates(w) == UNION {{<<g, n>> : n \in DOMAIN w[g]} : g \in DOMAIN w}

registered(w, group, n) == group \in DOMAIN w /\ n \in DOMAIN w[group]

moves(c) == calls'[c] # calls[c]

(* C18: get returns only from a query that hits, with the page of index N *)
(* and the body stored for (key,N) at that query; a signalled caller       *)
(* re-issues the same query, and when the entry is gone or lacks page N at *)
(* the requery, the caller does not return: a fresh fan-out is started and *)
(* the caller waits again.                                                 *)
C18_ReturnOnlyFromHit ==
    [][ \A c \in Callers :
          LET g == calls[c].group
              n == calls[c].n
          IN  /\ HitStep(c) =>
                   /\ calls'[c].group \in DOMAIN entries
                   /\ hasPage(entries[calls'[c].group], calls'[c].n)
                   /\ calls'[c].page.n = calls'[c].n
                   /\ calls'[c].page.body =
                        entries[calls'[c].group].pages[calls'[c].n]
              /\ (calls[c].pc # "returned" /\ calls'[c].pc = "returned") =>
                   /\ calls[c].pc = "requested"
                   /\ calls[c].wait = NilChan
                   /\ calls'[c].page.n = n
                   /\ calls'[c].page.body = calls[c].page.body
              /\ (calls[c].pc = "waiting" /\ moves(c)) =>
                   /\ calls[c].wait \in closed
                   /\ calls'[c].pc = "send"
                   /\ calls'[c].group = g /\ calls'[c].n = n
              /\ (calls[c].pc = "send" /\ moves(c)) =>
                   /\ QueryStep(c)
                   /\ calls'[c].group = g /\ calls'[c].n = n
                   /\ (g \notin DOMAIN entries \/ ~hasPage(entries[g], n)) =>
                        /\ MissStep(c)
                        /\ BagCardinality(tasks') =
                             BagCardinality(tasks) + PrefetchPages + 1
                        /\ BagIn(newTask(g, n), tasks')
              /\ (calls[c].pc = "requested" /\ calls[c].wait # NilChan
                    /\ moves(c)) =>
                   /\ calls'[c].pc = "waiting"
                   /\ calls'[c].wait = calls[c].wait ]_vars

C18_Witness ==
    \E c \in Callers :
        /\ calls[c].pc = "returned"
        /\ calls[c].rounds >= 2
        /\ calls[c].page.n = calls[c].n
        /\ calls[c].page.body = "x"

(* C19: no waiter is stranded: for every caller suspended on the gate of  *)
(* (key,N) that is not yet opened, a retrieval task for (key,N) is still   *)
(* to deliver its add.                                                     *)
C19_NoWaiterStranded ==
    \A c \in Callers :
        (calls[c].pc = "waiting" /\ calls[c].wait \notin closed) =>
            CopiesIn(newTask(calls[c].group, calls[c].n), tasks) >= 1

C19_Witness ==
    \E c \in Callers :
        /\ calls[c].pc = "waiting"
        /\ calls[c].n = 0
        /\ calls[c].wait = 2
        /\ calls[c].wait \notin closed
        /\ \E d \in Callers \ {c} : calls[d].n = 1 /\ calls[d].pc = "returned"

----------------------------------------------------------------------------
(* the cache serving two keys *)

TwoCalls == {<<"abc", 0>>, <<"xyz", 1>>}

TwoNext ==
    \/ Tick
    \/ \E c \in Callers, k \in TwoCalls : ExecGet(c, k[1], k[2])
    \/ \E c \in Callers : ExecRetry(c)
    \/ \E c \in Callers : FinishGet(c)
    \/ \E c \in Callers : Resume(c)
    \/ \E t \in BagToSet(tasks), res \in Results : ExecAdd(t, res)
    \/ \E t \in BagToSet(tasks) : FinishAdd(t)
    \/ ExecGc
    \/ FinishGc

TwoSpec == Init /\ [][TwoNext]_vars

(* C20: frame conditions. A sweep only removes entries: it leaves the     *)
(* registry, the channels and the retrieval tasks alone. An add changes    *)
(* only the entry of its key and the gate of its pair: the entries of      *)
(* other keys, the other pages of its entry and the gates of other pairs   *)
(* stay as they are. A query that hits changes neither the entries nor the *)
(* registry.                                                               *)
C20_Frame ==
    [][ /\ SweepStep =>
             /\ waits' = waits /\ closed' = closed /\ nchan' = nchan
             /\ tasks' = tasks
             /\ DOMAIN entries' \subseteq DOMAIN entries
             /\ \A g \in DOMAIN entries' : entries'[g] = entries[g]
        /\ AddStep =>
             \A t \in running(tasks') :
                 /\ DOMAIN entries' = DOMAIN entries \cup {t.group}
                 /\ \A g \in DOMAIN entries \ {t.group} :
                      entries'[g] = entries[g]
                 /\ t.group \in DOMAIN entries =>
                      /\ DOMAIN entries'[t.group].pages =
                           DOMAIN entries[t.group].pages \cup {t.n}
                      /\ \A k \in DOMAIN entries[t.group].pages \ {t.n} :
                           entries'[t.group].pages[k] =
                             entries[t.group].pages[k]
                 /\ gates(waits') = gates(waits) \ {<<t.group, t.n>>}
                 /\ \A p \in gates(waits') :
                      waits'[p[1]][p[2]] = waits[p[1]][p[2]]
                 /\ closed' \ closed \subseteq
                      {waits[p[1]][p[2]] : p \in gates(waits) \ gates(waits')}
                 /\ nchan' = nchan
        /\ \A c \in Callers :
             HitStep(c) => entries' = entries /\ waits' = waits ]_vars

C20_Witness ==
    \E t \in running(tasks) :
        /\ t.group = "abc"
        /\ "abc" \in DOMAIN waits
        /\ Cardinality(DOMAIN entries["abc"].pages) >= 2
        /\ "xyz" \in DOMAIN entries
        /\ "xyz" \in DOMAIN waits

====
